---- MODULE Spec2Model ----
(***************************************************************************)
(* Model of the metrics aggregation and comparison pipeline of             *)
(* metrics-viz: utils/metrics_calculator.py (MetricsCalculator), the       *)
(* batch driver of scripts/evaluate_yolo.py (YOLOEvaluator) and the        *)
(* dataset stager of utils/data_processor.py (DataProcessor).              *)
(*                                                                         *)
(* Floating-point values are modelled as exact non-negative rationals     *)
(* <<numerator, denominator>> in lowest terms.  A Python dict is the set   *)
(* of its keys with the value held at each key.                            *)
(***************************************************************************)
EXTENDS Integers, Sequences, FiniteSets, TLC

\* ------------------------------------------------------------------ bounds
\* Metric values handed to calculate_f1_score range over k/Scale, k \in 0..Scale.
Scale == 10
\* Metric values the detection engine reports in the extraction harness and
\* in the batch model: k/ValScale, k \in 0..ValScale.
ValScale == 2
\* The longest method list evaluate_all is given.
MaxMethods == 2
\* The number of times prepare_dataset is run on the same target directory.
MaxRuns == 2

\* ------------------------------------------------------- float arithmetic
RECURSIVE GCD(_, _)
GCD(a, b) == IF b = 0 THEN a ELSE GCD(b, a % b)

\* The rational n/d in lowest terms (d > 0, n >= 0).
Rat(n, d) == LET g == GCD(n, d) IN <<n \div g, d \div g>>

Zero == Rat(0, 1)
One == Rat(1, 1)
Two == Rat(2, 1)

RAdd(x, y) == Rat(x[1] * y[2] + y[1] * x[2], x[2] * y[2])
RMul(x, y) == Rat(x[1] * y[1], x[2] * y[2])
\* x / y; Python raises ZeroDivisionError for y == 0, which no caller reaches.
RDiv(x, y) == Rat(x[1] * y[2], x[2] * y[1])
RLeq(x, y) == x[1] * y[2] <= y[1] * x[2]
\* x - y; the numerator is negative when x < y.
RSub(x, y) == Rat(x[1] * y[2] - y[1] * x[2], x[2] * y[2])

\* ------------------------------------------------- MetricsCalculator (pure)
\* A mutation of calculate_f1_score: the factor 2 of the harmonic mean dropped.
calculate_f1_score_no_factor(precision, recall) ==
    IF RAdd(precision, recall) = Zero
    THEN Zero
    ELSE RDiv(RMul(precision, recall), RAdd(precision, recall))

\* A mutation of calculate_f1_score: the arithmetic mean instead of the
\* harmonic mean.
calculate_f1_score_mean(precision, recall) ==
    IF RAdd(precision, recall) = Zero
    THEN Zero
    ELSE RDiv(RAdd(precision, recall), Two)

calculate_f1_score(precision, recall) ==
    IF RAdd(precision, recall) = Zero
    THEN Zero
    ELSE RDiv(RMul(Two, RMul(precision, recall)), RAdd(precision, recall))

\* ------------------------------------------------------------ Python dicts
\* A metric dict: the set of its keys and the value at each key (Zero at a
\* key it does not hold).
FiveKeys == {"mAP@0.5", "mAP@0.5:0.95", "mAP@0.75", "precision", "recall"}

AllKeys == FiveKeys \cup {"f1_score"}

EmptyDict == [keys |-> {}, at |-> [k \in AllKeys |-> Zero]]

\* dict.get(key, default)
Get(d, key, default) == IF key \in d.keys THEN d.at[key] ELSE default

\* d[key] = v
Put(d, key, v) == [keys |-> d.keys \cup {key}, at |-> [d.at EXCEPT ![key] = v]]

ZeroVector ==
    [keys |-> FiveKeys, at |-> [k \in AllKeys |-> Zero]]

\* -------------------------------------------------- the opaque metrics object
\* An attribute of metrics_obj.box is absent ("missing"), holds a value that
\* float() rejects ("bad": None, a non-numeric string), or holds a number.
MissingAttr == [kind |-> "missing", v |-> Zero]
BadAttr == [kind |-> "bad", v |-> Zero]
NumAttr(x) == [kind |-> "num", v |-> x]

BoxAttrs == {"map50", "map", "map75", "mp", "mr"}

\* A metrics object without a box attribute.
NoBox == [has_box |-> FALSE, box |-> [a \in BoxAttrs |-> MissingAttr]]

\* float(metrics_obj.box.<a>) raises: no box, no such attribute, or not a number.
ReadRaises(metrics_obj, a) ==
    \/ ~metrics_obj.has_box
    \/ metrics_obj.box[a].kind # "num"

\* "float(box.<a>) if hasattr(box, a) else 0.0" raises: the attribute is
\* present and float() rejects it.
OptionalRaises(metrics_obj, a) ==
    /\ metrics_obj.has_box
    /\ metrics_obj.box[a].kind = "bad"

\* float(box.<a>) if hasattr(box, a) else 0.0
Optional(metrics_obj, a) ==
    IF metrics_obj.box[a].kind = "missing" THEN Zero ELSE metrics_obj.box[a].v

\* The dict expression inside the try block raises.
ExtractRaises(metrics_obj) ==
    \/ ReadRaises(metrics_obj, "map50")
    \/ ReadRaises(metrics_obj, "map")
    \/ OptionalRaises(metrics_obj, "map75")
    \/ OptionalRaises(metrics_obj, "mp")
    \/ OptionalRaises(metrics_obj, "mr")

\* The dict built inside the try block.
ExtractedDict(metrics_obj) ==
    [keys |-> FiveKeys,
     at |-> [k \in AllKeys |->
        CASE k = "mAP@0.5" -> metrics_obj.box["map50"].v
          [] k = "mAP@0.5:0.95" -> metrics_obj.box["map"].v
          [] k = "mAP@0.75" -> Optional(metrics_obj, "map75")
          [] k = "precision" -> Optional(metrics_obj, "mp")
          [] k = "recall" -> Optional(metrics_obj, "mr")
          [] OTHER -> Zero]]

\* The outcome of a call: the value returned, or raised = TRUE.
Returned(v) == [raised |-> FALSE, val |-> v]
RaisedOutcome == [raised |-> TRUE, val |-> EmptyDict]

\* A mutation of extract_yolo_metrics: no except clause around the reads.
extract_yolo_metrics_no_except(metrics_obj) ==
    IF ExtractRaises(metrics_obj)
    THEN RaisedOutcome
    ELSE Returned(ExtractedDict(metrics_obj))

extract_yolo_metrics(metrics_obj) ==
    IF ExtractRaises(metrics_obj)
    THEN Returned(ZeroVector)
    ELSE Returned(ExtractedDict(metrics_obj))

\* ---------------------------------------------------------------- state
VARIABLES
    f1_in,              \* calculate_f1_score: the arguments <<precision, recall>>
    f1_out,             \* calculate_f1_score: [called, val]
    ex_in,              \* extract_yolo_metrics: the metrics object
    ex_out,             \* extract_yolo_metrics: [called, raised, val]
    methods,            \* evaluate_all: the ordered method list
    pc,                 \* evaluate_all / evaluate: the position of the batch
    halted_at,          \* the position at which a hard interrupt stopped the batch
    error,              \* the step whose exception left evaluate_all ("none": none)
    log,                \* the calls made so far: evaluate(m), aggregation, report
    results,            \* evaluate_all: results, as the items (method, metrics)
    extracted_metrics,  \* evaluate: the dict under construction
    root_exists,        \* the output root directory exists
    entries,            \* the entries of the output root, by name
    df,                 \* the table of the last create_comparison_table call
    scan_data,          \* create_comparison_table alone: the list data, before the sort
    report,             \* what the last print_comparison_table call printed
    source,             \* prepare_dataset: the source directory [exists, listing]
    copy_mode,          \* prepare_dataset: the copy_mode argument
    target,             \* prepare_dataset: images_dir / method_name [exists, at]
    returned,           \* prepare_dataset: the outcome of the last call
    runs,               \* prepare_dataset: the number of calls made
    ver_in,             \* verify_dataset: the image and label directories
    ver_out             \* verify_dataset: [called, result]

staging == <<source, copy_mode, target, returned, runs>>
pairing == <<ver_in, ver_out>>
harness == <<f1_in, f1_out, ex_in, ex_out, staging, pairing>>
batch == <<methods, pc, halted_at, error, log, results, extracted_metrics,
           root_exists, entries, df, scan_data, report>>
vars == <<f1_in, f1_out, ex_in, ex_out, methods, pc, halted_at, error, log, results,
          extracted_metrics, root_exists, entries, df, scan_data, report,
          source, copy_mode, target, returned, runs, ver_in, ver_out>>

\* ------------------------------------------------------------ value sets
Grid(n) == {Rat(k, n) : k \in 0..n}

\* evaluate_all's default method list holds the three method names.
Methods == {"raw", "pwgcm", "hsv"}

\* All orderings of the set S.
RECURSIVE Orders(_)
Orders(S) ==
    IF S = {} THEN {<<>>}
    ELSE UNION {{<<x>> \o o : o \in Orders(S \ {x})} : x \in S}

\* The method lists: the non-empty lists of distinct methods (the CLI's
\* --methods takes one or more names).
MethodLists ==
    UNION {Orders(S) : S \in {T \in SUBSET Methods :
                                T # {} /\ Cardinality(T) <= MaxMethods}}

\* Path(self.model_path).stem for the default model path.
ModelName == "yolov8x"

\* ------------------------------------------------------------ file system
\* metrics.json of a directory: absent, partial (opened for writing and
\* truncated, the JSON text not yet complete), or ok with its parsed result.
NoResult == [model |-> "", method |-> "", metrics |-> EmptyDict]

AbsentFile == [state |-> "absent", result |-> NoResult]
PartialFile == [state |-> "partial", result |-> NoResult]
OkFile(result) == [state |-> "ok", result |-> result]

\* An entry of the output root: none, a regular file, or a directory with
\* its metrics.json and whether a metrics.json lies deeper below it.
NoEntry == [kind |-> "none", json |-> AbsentFile, nested |-> FALSE]
FileEntry == [kind |-> "file", json |-> AbsentFile, nested |-> FALSE]
DirEntry(json, nested) == [kind |-> "dir", json |-> json, nested |-> nested]

CsvName == "comparison.csv"
ArchiveName == "archive"
Names == Methods \cup {CsvName, ArchiveName}

\* Results an earlier run, or another tool, left in the output root: a stored
\* f1_score that differs from the derived one (raw), no f1_score (pwgcm), no
\* mAP@0.5:0.95 and no precision (hsv).
OldMetrics(m) ==
    CASE m = "raw" ->
            [keys |-> AllKeys,
             at |-> [k \in AllKeys |->
                CASE k = "precision" -> Rat(1, 2)
                  [] k = "mAP@0.5:0.95" -> Rat(1, 2)
                  [] k = "f1_score" -> Zero
                  [] OTHER -> One]]
      [] m = "pwgcm" ->
            [keys |-> FiveKeys,
             at |-> [k \in AllKeys |-> IF k \in FiveKeys THEN One ELSE Zero]]
      [] OTHER ->
            [keys |-> {"mAP@0.5", "mAP@0.75", "recall"},
             at |-> [k \in AllKeys |->
                IF k \in {"mAP@0.5", "mAP@0.75", "recall"} THEN Rat(1, 2) ELSE Zero]]

OldResult(m) == [model |-> "yolov8n", method |-> m, metrics |-> OldMetrics(m)]

\* The output root before the batch: missing, or holding for each set of
\* methods the results of earlier runs, with comparison.csv beside them and
\* an archive directory in which older results are nested deeper.
InitialRoots ==
    {[exists |-> FALSE, entries |-> [n \in Names |-> NoEntry]]}
    \cup
    {[exists |-> TRUE,
      entries |-> [n \in Names |->
        CASE n \in old -> DirEntry(OkFile(OldResult(n)), FALSE)
          [] n = CsvName /\ old # {} -> FileEntry
          [] n = ArchiveName /\ old # {} -> DirEntry(AbsentFile, TRUE)
          [] OTHER -> NoEntry]]
     : old \in SUBSET Methods}

\* -------------------------------------------------------- persistence
\* A mutation of WithF1: an f1_score already in the dict is kept
\* (metrics.setdefault('f1_score', f1)).
WithF1_keep_existing(metrics) ==
    IF "f1_score" \in metrics.keys THEN metrics
    ELSE Put(metrics, "f1_score",
             calculate_f1_score(Get(metrics, "precision", Zero),
                                Get(metrics, "recall", Zero)))

\* save_metrics up to the assignment metrics['f1_score'] = f1: the dict that
\* is written, which is also the caller's dict (it is updated in place).
WithF1(metrics) ==
    Put(metrics, "f1_score",
        calculate_f1_score(Get(metrics, "precision", Zero),
                           Get(metrics, "recall", Zero)))

\* The result object json.dump writes.
ResultObject(metrics, method_name, model_name) ==
    [model |-> model_name, method |-> method_name, metrics |-> metrics]

\* -------------------------------------------------------- aggregation
\* A mutation of RowOf: F1-Score is the stored f1_score, not recomputed.
RowOf_trust_stored(result) ==
    LET metrics == result.metrics
    IN  [Method |-> result.method,
         Model |-> result.model,
         mAP50 |-> Get(metrics, "mAP@0.5", Zero),
         mAP |-> Get(metrics, "mAP@0.5:0.95", Zero),
         mAP75 |-> Get(metrics, "mAP@0.75", Zero),
         Precision |-> Get(metrics, "precision", Zero),
         Recall |-> Get(metrics, "recall", Zero),
         F1Score |-> Get(metrics, "f1_score", Zero)]

\* The row create_comparison_table appends for one parsed metrics.json.
RowOf(result) ==
    LET metrics == result.metrics
        f1 == calculate_f1_score(Get(metrics, "precision", Zero),
                                 Get(metrics, "recall", Zero))
    IN  [Method |-> result.method,
         Model |-> result.model,
         mAP50 |-> Get(metrics, "mAP@0.5", Zero),
         mAP |-> Get(metrics, "mAP@0.5:0.95", Zero),
         mAP75 |-> Get(metrics, "mAP@0.75", Zero),
         Precision |-> Get(metrics, "precision", Zero),
         Recall |-> Get(metrics, "recall", Zero),
         F1Score |-> f1]

\* A mutation of CollectData: a directory without metrics.json is not
\* skipped; opening its metrics.json raises.
RECURSIVE CollectData_requires_metrics(_, _, _)
CollectData_requires_metrics(ents, order, data) ==
    IF order = <<>> THEN [raised |-> FALSE, rows |-> data]
    ELSE LET e == ents[Head(order)] IN
         IF e.kind # "dir" THEN CollectData_requires_metrics(ents, Tail(order), data)
         ELSE IF e.json.state # "ok" THEN [raised |-> TRUE, rows |-> <<>>]
         ELSE CollectData_requires_metrics(ents, Tail(order),
                                           Append(data, RowOf(e.json.result)))

\* A mutation of CollectData: metrics.json is searched recursively, so a
\* directory with a metrics.json nested deeper yields a row too.
RECURSIVE CollectData_reads_nested(_, _, _)
CollectData_reads_nested(ents, order, data) ==
    IF order = <<>> THEN [raised |-> FALSE, rows |-> data]
    ELSE LET e == ents[Head(order)] IN
         IF e.kind # "dir" THEN CollectData_reads_nested(ents, Tail(order), data)
         ELSE IF e.json.state = "partial" THEN [raised |-> TRUE, rows |-> <<>>]
         ELSE LET own == IF e.json.state = "ok"
                         THEN <<RowOf(e.json.result)>> ELSE <<>>
                  deeper == IF e.nested
                            THEN <<RowOf(OldResult(Head(order)))>> ELSE <<>>
              IN  CollectData_reads_nested(ents, Tail(order), data \o own \o deeper)

\* The loop over results_path.iterdir(), the entries taken in the given
\* order: entries that are no directory and directories without metrics.json
\* are skipped; json.load raises on a partial file.
RECURSIVE CollectData(_, _, _)
CollectData(ents, order, data) ==
    IF order = <<>> THEN [raised |-> FALSE, rows |-> data]
    ELSE LET e == ents[Head(order)] IN
         IF e.kind # "dir" THEN CollectData(ents, Tail(order), data)
         ELSE IF e.json.state = "absent" THEN CollectData(ents, Tail(order), data)
         ELSE IF e.json.state = "partial" THEN [raised |-> TRUE, rows |-> <<>>]
         ELSE CollectData(ents, Tail(order), Append(data, RowOf(e.json.result)))

\* The place of a new row in a table sorted by mAP@0.5:0.95, descending: after
\* the rows with a larger value and, when ties keep their order, after the
\* rows with an equal value.
InsertAt(sorted, row, keep_ties) ==
    Cardinality({j \in 1..Len(sorted) :
        \/ ~RLeq(sorted[j].mAP, row.mAP)
        \/ (keep_ties /\ sorted[j].mAP = row.mAP)})

\* A mutation of SortValues: the rows stay in directory order.
SortValues_unsorted(sorted, data, keep_ties) == sorted \o data

\* df.sort_values('mAP@0.5:0.95', ascending=False), as an insertion sort.
\* pandas sorts with kind='quicksort', which is not stable: rows with equal
\* values keep their order (keep_ties) or not.
RECURSIVE SortValues(_, _, _)
SortValues(sorted, data, keep_ties) ==
    IF data = <<>> THEN sorted
    ELSE LET row == Head(data)
             p == InsertAt(sorted, row, keep_ties)
         IN  SortValues(SubSeq(sorted, 1, p) \o <<row>> \o
                        SubSeq(sorted, p + 1, Len(sorted)),
                        Tail(data), keep_ties)

\* The names iterdir() yields: the entries present in the root.
Present(ents) == {n \in Names : ents[n].kind # "none"}

\* The orders in which iterdir() yields the entries. The order is arbitrary;
\* the method directories come in every order, after comparison.csv and the
\* archive directory (which the loop skips wherever they come).
ScanOrders(ents) ==
    LET first == IF ents[CsvName].kind # "none" THEN <<CsvName>> ELSE <<>>
        second == IF ents[ArchiveName].kind # "none" THEN <<ArchiveName>> ELSE <<>>
    IN  {first \o second \o o : o \in Orders(Present(ents) \cap Methods)}

\* create_comparison_table(results_dir): iterdir() raises when the root does
\* not exist; the rows are collected in directory order and sorted.
create_comparison_table(exists, ents, order, keep_ties) ==
    IF ~exists THEN [status |-> "raised", rows |-> <<>>]
    ELSE LET got == CollectData(ents, order, <<>>) IN
         IF got.raised THEN [status |-> "raised", rows |-> <<>>]
         ELSE [status |-> "ok", rows |-> SortValues(<<>>, got.rows, keep_ties)]

NoTable == [status |-> "none", rows |-> <<>>]

\* create_comparison_table: the list data when the loop over iterdir() ends,
\* in the order in which the directories were found.
CollectedData(exists, ents, order) ==
    IF ~exists THEN <<>>
    ELSE LET got == CollectData(ents, order, <<>>) IN
         IF got.raised THEN <<>> ELSE got.rows

\* ------------------------------------------------- print_comparison_table
\* f"{improvement:+.2f}": the value in hundredths, rounded to the nearest.
Format2f(x) == (2 * 100 * x[1] + x[2]) \div (2 * x[2])

\* One line of the relative-improvement block. The operands are numpy
\* scalars: dividing by a baseline of zero yields inf (with a warning), which
\* is printed as "+inf%".
ImprovementLine(row, baseline_map) ==
    IF baseline_map = Zero
    THEN [Method |-> row.Method, finite |-> FALSE, improvement |-> Zero, text |-> 0]
    ELSE LET improvement ==
                RMul(RDiv(RSub(row.mAP, baseline_map), baseline_map), Rat(100, 1))
         IN  [Method |-> row.Method, finite |-> TRUE,
              improvement |-> improvement, text |-> Format2f(improvement)]

NoReport == [status |-> "none", lines |-> <<>>]

\* A mutation of print_comparison_table: the baseline is the mean of the rows.
print_comparison_table_mean_baseline(rows) ==
    IF rows = <<>> THEN [status |-> "empty", lines |-> <<>>]
    ELSE IF Len(rows) = 1 THEN [status |-> "printed", lines |-> <<>>]
    ELSE LET sum[i \in 0..Len(rows)] ==
                IF i = 0 THEN Zero ELSE RAdd(sum[i - 1], rows[i].mAP)
             baseline_map == RDiv(sum[Len(rows)], Rat(Len(rows), 1))
             shown == SelectSeq(rows, LAMBDA row : row.mAP # baseline_map)
         IN  [status |-> "printed",
              lines |-> [i \in 1..Len(shown) |->
                            ImprovementLine(shown[i], baseline_map)]]

\* A mutation of print_comparison_table: every row is reported, the rows
\* equal to the baseline with 0%.
print_comparison_table_every_row(rows) ==
    IF rows = <<>> THEN [status |-> "empty", lines |-> <<>>]
    ELSE IF Len(rows) = 1 THEN [status |-> "printed", lines |-> <<>>]
    ELSE LET baseline_map == rows[Len(rows)].mAP
         IN  [status |-> "printed",
              lines |-> [i \in 1..Len(rows) |->
                            ImprovementLine(rows[i], baseline_map)]]

\* print_comparison_table(df): nothing but a notice for an empty table; the
\* relative-improvement block for a table of more than one row, with the last
\* row as the baseline and one line for each row whose mAP@0.5:0.95 differs
\* from the baseline's.
print_comparison_table(rows) ==
    IF rows = <<>> THEN [status |-> "empty", lines |-> <<>>]
    ELSE IF Len(rows) = 1 THEN [status |-> "printed", lines |-> <<>>]
    ELSE LET baseline_map == rows[Len(rows)].mAP
             shown == SelectSeq(rows, LAMBDA row : row.mAP # baseline_map)
         IN  [status |-> "printed",
              lines |-> [i \in 1..Len(shown) |->
                            ImprovementLine(shown[i], baseline_map)]]

\* ----------------------------------------------------------- DataProcessor
\* A file name: its stem and its suffix (Path.stem, Path.suffix).
Name(stem, suffix) == [stem |-> stem, suffix |-> suffix]

\* A path: the directory below the root it is given under, the file name, and
\* whether the path is absolute. A relative path stored in a symbolic link
\* is resolved against the directory of the link, not the working directory.
Path(dir, name) == [abs |-> FALSE, dir |-> dir, name |-> name]
NoPath == Path("", Name("", ""))

\* Path.absolute(): the same path, anchored at the working directory.
absolute(p) == [p EXCEPT !.abs = TRUE]

\* str.lower() on the suffixes of the model.
Lower(suffix) ==
    CASE suffix = ".JPG" -> ".jpg"
      [] suffix = ".PNG" -> ".png"
      [] OTHER -> suffix

image_extensions == {".jpg", ".jpeg", ".png", ".bmp", ".tiff", ".tif"}

\* An entry of a directory tree, as rglob('*') yields it.
Entry(path, kind) == [path |-> path, kind |-> kind]

\* The condition of _get_image_files: f.suffix.lower() in image_extensions
\* and f.is_file().
IsImage(f) ==
    /\ Lower(f.path.name.suffix) \in image_extensions
    /\ f.kind = "file"

\* _get_image_files(directory): the image files, in the order of rglob('*').
get_image_files(listing) == SelectSeq(listing, IsImage)

\* What lies at a path of the target directory: nothing, a regular file (with
\* the path its content was copied from) or a symbolic link (with the path
\* stored in it).
NoTarget == [kind |-> "none", to |-> NoPath]
RegularFile(content_of) == [kind |-> "file", to |-> content_of]
Symlink(dest) == [kind |-> "link", to |-> dest]

\* A path that no longer exists: a file of a directory that was removed.
GonePath(name) == absolute(Path("removed", name))

\* Whether a path stored in a link leads to an entry of the source tree.
PathExists(src, p) ==
    /\ p.abs
    /\ src.exists
    /\ \E i \in 1..Len(src.listing) : absolute(src.listing[i].path) = p

\* Path.exists(): follows symbolic links, so it is False for a dangling link.
Exists(src, e) ==
    \/ e.kind = "file"
    \/ e.kind = "link" /\ PathExists(src, e.to)

\* The entries a source tree is made of: two image files of the same name in
\* different directories, an image file with an upper-case suffix, a text
\* file and a directory named like an image.
SourceEntries ==
    {Entry(Path("", Name("a", ".jpg")), "file"),
     Entry(Path("sub", Name("a", ".jpg")), "file"),
     Entry(Path("", Name("b", ".PNG")), "file"),
     Entry(Path("", Name("notes", ".txt")), "file"),
     Entry(Path("", Name("frames", ".jpg")), "dir")}

\* The source directories: missing, or holding some of the entries, which
\* rglob('*') yields in an arbitrary order that does not change while the
\* tree does not change.
Sources ==
    {[exists |-> FALSE, listing |-> <<>>]}
    \cup
    {[exists |-> TRUE, listing |-> l] :
        l \in UNION {Orders(S) : S \in SUBSET SourceEntries}}

\* The names staging can write in the target directory.
TargetNames == {e.path.name : e \in {f \in SourceEntries : IsImage(f)}}

\* The target directories before the first run: missing, or holding under
\* each name nothing, a regular file, a link to a source file of that name
\* (left by an earlier run) or a link whose destination no longer exists.
InitialTargets(src) ==
    {[exists |-> FALSE, at |-> [n \in TargetNames |-> NoTarget]]}
    \cup
    {[exists |-> TRUE, at |-> f] :
        f \in {g \in [TargetNames ->
                        {NoTarget}
                        \cup {RegularFile(GonePath(n)) : n \in TargetNames}
                        \cup {Symlink(GonePath(n)) : n \in TargetNames}
                        \cup {Symlink(absolute(e.path)) : e \in SourceEntries}] :
                  \A n \in TargetNames :
                    \/ g[n].kind = "none"
                    \/ /\ g[n].to.name = n
                       /\ g[n].to.dir = "removed" \/ PathExists(src, g[n].to)}}

\* A mutation of StageFile: an existing target is not unlinked before
\* os.symlink.
StageFile_no_unlink(src, at, img_file, copy) ==
    LET target_file == img_file.path.name
        e == at[target_file]
    IN  IF copy
        THEN IF e.kind = "link"
             THEN [raised |-> TRUE, at |-> at]
             ELSE [raised |-> FALSE,
                   at |-> [at EXCEPT ![target_file] = RegularFile(img_file.path)]]
        ELSE IF e.kind # "none"
             THEN [raised |-> TRUE, at |-> at]
             ELSE [raised |-> FALSE,
                   at |-> [at EXCEPT ![target_file] =
                                Symlink(absolute(img_file.path))]]

\* The body of the staging loop for one image file.
\* copy mode: shutil.copy2 follows a link at the target: it raises
\* FileNotFoundError when the link dangles (the directory of its destination
\* is gone), SameFileError when the link leads to the source file itself, and
\* otherwise writes through the link, which stays.
\* link mode: target_file.unlink() if target_file.exists(), then os.symlink,
\* which raises FileExistsError when something is still at the target.
StageFile(src, at, img_file, copy) ==
    LET target_file == img_file.path.name
        e == at[target_file]
    IN  IF copy
        THEN IF e.kind = "link"
             THEN IF ~PathExists(src, e.to) \/ e.to = absolute(img_file.path)
                  THEN [raised |-> TRUE, at |-> at]
                  ELSE [raised |-> FALSE, at |-> at]
             ELSE [raised |-> FALSE,
                   at |-> [at EXCEPT ![target_file] = RegularFile(img_file.path)]]
        ELSE LET left == IF Exists(src, e) THEN NoTarget ELSE e
             IN  IF left.kind # "none"
                 THEN [raised |-> TRUE, at |-> at]
                 ELSE [raised |-> FALSE,
                       at |-> [at EXCEPT ![target_file] =
                                    Symlink(absolute(img_file.path))]]

\* for img_file in image_files: the loop ends at the first exception.
RECURSIVE StageFiles(_, _, _, _)
StageFiles(src, at, image_files, copy) ==
    IF image_files = <<>> THEN [raised |-> FALSE, at |-> at]
    ELSE LET one == StageFile(src, at, Head(image_files), copy)
         IN  IF one.raised THEN one
             ELSE StageFiles(src, one.at, Tail(image_files), copy)

\* prepare_dataset(source_images, method_name, copy_mode): the target
\* directory is created first; False when the source does not exist or holds
\* no image file; otherwise the image files are staged.
prepare_dataset(src, tgt, copy) ==
    LET made == [tgt EXCEPT !.exists = TRUE]
        image_files == get_image_files(src.listing)
    IN  IF ~src.exists THEN [ret |-> "False", target |-> made]
        ELSE IF image_files = <<>> THEN [ret |-> "False", target |-> made]
        ELSE LET staged == StageFiles(src, made.at, image_files, copy)
             IN  [ret |-> IF staged.raised THEN "raised" ELSE "True",
                  target |-> [made EXCEPT !.at = staged.at]]

\* The issues verify_dataset reports, with the count the message carries.
Issue(kind, count) == [kind |-> kind, count |-> count]

NoVerification ==
    [images_exist |-> FALSE, labels_exist |-> FALSE, image_count |-> 0,
     label_count |-> 0, matched_count |-> 0, issues |-> <<>>]

\* A mutation of verify_dataset: files are paired by their whole name
\* instead of their stem.
verify_dataset_by_name(v) ==
    IF ~v.images_exist
    THEN [NoVerification EXCEPT !.issues = <<Issue("no_images_dir", 0)>>]
    ELSE LET image_files == {f \in v.images : IsImage(f)} IN
         IF ~v.labels_exist
         THEN [NoVerification EXCEPT
                    !.images_exist = TRUE,
                    !.image_count = Cardinality(image_files),
                    !.issues = <<Issue("no_labels_dir", 0)>>]
         ELSE LET label_files == {f \in v.labels : f.path.name.suffix = ".txt"}
                  image_stems == {f.path.name : f \in image_files}
                  label_stems == {f.path.name : f \in label_files}
                  unmatched_images == image_stems \ label_stems
                  unmatched_labels == label_stems \ image_stems
              IN  [images_exist |-> TRUE, labels_exist |-> TRUE,
                   image_count |-> Cardinality(image_files),
                   label_count |-> Cardinality(label_files),
                   matched_count |-> Cardinality(image_stems \cap label_stems),
                   issues |->
                     (IF unmatched_images # {}
                      THEN <<Issue("unmatched_images", Cardinality(unmatched_images))>>
                      ELSE <<>>)
                     \o
                     (IF unmatched_labels # {}
                      THEN <<Issue("unmatched_labels", Cardinality(unmatched_labels))>>
                      ELSE <<>>)]

\* verify_dataset(method_name): an issue and an early return when the image
\* or the label directory is missing; otherwise the image files (found
\* recursively) and the label files (glob('*.txt')) are paired by stem.
verify_dataset(v) ==
    IF ~v.images_exist
    THEN [NoVerification EXCEPT !.issues = <<Issue("no_images_dir", 0)>>]
    ELSE LET image_files == {f \in v.images : IsImage(f)} IN
         IF ~v.labels_exist
         THEN [NoVerification EXCEPT
                    !.images_exist = TRUE,
                    !.image_count = Cardinality(image_files),
                    !.issues = <<Issue("no_labels_dir", 0)>>]
         ELSE LET label_files == {f \in v.labels : f.path.name.suffix = ".txt"}
                  image_stems == {f.path.name.stem : f \in image_files}
                  label_stems == {f.path.name.stem : f \in label_files}
                  unmatched_images == image_stems \ label_stems
                  unmatched_labels == label_stems \ image_stems
              IN  [images_exist |-> TRUE, labels_exist |-> TRUE,
                   image_count |-> Cardinality(image_files),
                   label_count |-> Cardinality(label_files),
                   matched_count |-> Cardinality(image_stems \cap label_stems),
                   issues |->
                     (IF unmatched_images # {}
                      THEN <<Issue("unmatched_images", Cardinality(unmatched_images))>>
                      ELSE <<>>)
                     \o
                     (IF unmatched_labels # {}
                      THEN <<Issue("unmatched_labels", Cardinality(unmatched_labels))>>
                      ELSE <<>>)]

\* ---------------------------------------------------------- batch driver
Call(op, arg) == [op |-> op, arg |-> arg]

\* The method evaluate is working on: the first one without a result.
Current == methods[Len(results) + 1]

\* evaluate returns metrics for the current method: results[method] = metrics.
\* fault records which step failed (none: the method completed).
ReturnFromEvaluate(metrics, fault) ==
    /\ results' = Append(results,
            [method |-> Current, metrics |-> metrics, fault |-> fault])
    /\ extracted_metrics' = EmptyDict
    /\ pc' = "loop"

InitBatch ==
    /\ methods \in MethodLists
    /\ pc = "loop"
    /\ halted_at = "none"
    /\ error = "none"
    /\ log = <<>>
    /\ results = <<>>
    /\ extracted_metrics = EmptyDict
    /\ \E r \in InitialRoots :
        /\ root_exists = r.exists
        /\ entries = r.entries
    /\ df = NoTable
    /\ scan_data = <<>>
    /\ report = NoReport

\* prepare_dataset and verify_dataset are not called.
IdleStaging ==
    /\ source = [exists |-> FALSE, listing |-> <<>>]
    /\ copy_mode = FALSE
    /\ target = [exists |-> FALSE, at |-> [n \in TargetNames |-> NoTarget]]
    /\ returned = "none"
    /\ runs = 0

IdlePairing ==
    /\ ver_in = [images_exist |-> FALSE, labels_exist |-> FALSE,
                 images |-> {}, labels |-> {}]
    /\ ver_out = [called |-> FALSE, result |-> NoVerification]

IdleHarness ==
    /\ f1_in = <<Zero, Zero>>
    /\ f1_out = [called |-> FALSE, val |-> Zero]
    /\ ex_in = NoBox
    /\ ex_out = [called |-> FALSE, raised |-> FALSE, val |-> EmptyDict]
    /\ IdleStaging
    /\ IdlePairing

Init == IdleHarness /\ InitBatch

\* for method in methods: the call of evaluate(method).
NextMethod ==
    /\ pc = "loop"
    /\ Len(results) < Len(methods)
    /\ log' = Append(log, Call("evaluate", Current))
    /\ pc' = "yaml"
    /\ UNCHANGED <<harness, methods, halted_at, error, results, extracted_metrics,
                   root_exists, entries, df, scan_data, report>>

\* evaluate: yaml_path = self.create_yaml_config(method_name), before the try
\* block. The descriptor is written outside the output root; an error writing
\* it propagates to the caller.
CreateYamlConfig ==
    /\ pc = "yaml"
    /\ \/ /\ pc' = "mkdir"
          /\ UNCHANGED error
       \/ /\ pc' = "raised"
          /\ error' = "yaml"
    /\ UNCHANGED <<harness, methods, halted_at, log, results, extracted_metrics,
                   root_exists, entries, df, scan_data, report>>

\* evaluate: output_dir.mkdir(parents=True, exist_ok=True), before the try
\* block; an error propagates to the caller.
MakeOutputDir ==
    /\ pc = "mkdir"
    /\ \/ /\ pc' = "val"
          /\ root_exists' = TRUE
          /\ entries' = [entries EXCEPT ![Current] =
                IF @.kind = "dir" THEN @ ELSE DirEntry(AbsentFile, FALSE)]
          /\ UNCHANGED error
       \/ /\ pc' = "raised"
          /\ error' = "mkdir"
          /\ UNCHANGED <<root_exists, entries>>
    /\ UNCHANGED <<harness, methods, halted_at, log, results, extracted_metrics, df, scan_data, report>>

\* The metrics objects model.val returns in the batch model: one without a
\* box, and for each grid value v > 0 one with map = mp = v, map50 = mr = 1
\* and no map75 attribute.
EngineObject(v) ==
    [has_box |-> TRUE,
     box |-> [a \in BoxAttrs |->
        CASE a \in {"map", "mp"} -> NumAttr(v)
          [] a = "map75" -> MissingAttr
          [] OTHER -> NumAttr(One)]]

ValObjects == {NoBox} \cup {EngineObject(v) : v \in Grid(ValScale) \ {Zero}}

\* A mutation of Validate: model.val is called outside the try block, so its
\* exception leaves evaluate and evaluate_all.
Validate_no_try ==
    /\ pc = "val"
    /\ \/ /\ pc' = "raised"
          /\ error' = "val"
          /\ UNCHANGED <<results, extracted_metrics>>
       \/ /\ \E metrics \in ValObjects :
                /\ extracted_metrics' = extract_yolo_metrics(metrics).val
                /\ pc' = "save_open"
          /\ UNCHANGED <<results, error>>
    /\ UNCHANGED <<harness, methods, halted_at, log, root_exists, entries, df, scan_data, report>>

\* evaluate, inside the try block: metrics = self.model.val(...) and
\* extracted_metrics = extract_yolo_metrics(metrics). An exception of either
\* is caught by "except Exception" and evaluate returns {}.
Validate ==
    /\ pc = "val"
    /\ \/ /\ ReturnFromEvaluate(EmptyDict, "val")
       \/ \E metrics \in ValObjects :
            LET got == extract_yolo_metrics(metrics) IN
            IF got.raised
            THEN ReturnFromEvaluate(EmptyDict, "extract")
            ELSE /\ extracted_metrics' = got.val
                 /\ pc' = "save_open"
                 /\ UNCHANGED results
    /\ UNCHANGED <<harness, methods, halted_at, error, log, root_exists, entries, df, scan_data, report>>

\* save_metrics, first part: the f1 score is derived and stored in the dict,
\* and open(output_path, 'w') truncates metrics.json. An error of open is
\* caught by evaluate, which returns {}.
SaveMetricsOpen ==
    /\ pc = "save_open"
    /\ \/ /\ extracted_metrics' = WithF1(extracted_metrics)
          /\ entries' = [entries EXCEPT ![Current].json = PartialFile]
          /\ pc' = "save_dump"
          /\ UNCHANGED results
       \/ /\ ReturnFromEvaluate(EmptyDict, "open")
          /\ UNCHANGED entries
    /\ UNCHANGED <<harness, methods, halted_at, error, log, root_exists, df, scan_data, report>>

\* save_metrics, second part: json.dump(result, f) completes and the file is
\* closed; or writing fails part-way (the partial file stays), the error is
\* caught by evaluate and evaluate returns {}.
SaveMetricsDump ==
    /\ pc = "save_dump"
    /\ \/ /\ entries' = [entries EXCEPT ![Current].json =
                OkFile(ResultObject(extracted_metrics, Current, ModelName))]
          /\ pc' = "summary"
          /\ UNCHANGED <<results, extracted_metrics>>
       \/ /\ ReturnFromEvaluate(EmptyDict, "dump")
          /\ UNCHANGED entries
    /\ UNCHANGED <<harness, methods, halted_at, error, log, root_exists, df, scan_data, report>>

\* save_metrics_summary writes metrics_summary.txt, then evaluate returns
\* extracted_metrics; an error writing the summary is caught and evaluate
\* returns {}.
SaveMetricsSummary ==
    /\ pc = "summary"
    /\ \/ ReturnFromEvaluate(extracted_metrics, "none")
       \/ ReturnFromEvaluate(EmptyDict, "summary")
    /\ UNCHANGED <<harness, methods, halted_at, error, log, root_exists, entries, df, scan_data, report>>

\* evaluate_all after the loop: df = create_comparison_table(output_root).
\* iterdir() yields the entries in an arbitrary order.
CreateComparisonTable ==
    /\ pc = "loop"
    /\ Len(results) = Len(methods)
    /\ log' = Append(log, Call("create_comparison_table", ""))
    /\ \E order \in ScanOrders(entries), keep_ties \in BOOLEAN :
        df' = create_comparison_table(root_exists, entries, order, keep_ties)
    /\ pc' = IF df'.status = "ok" THEN "print" ELSE "raised"
    /\ error' = IF df'.status = "ok" THEN "none" ELSE "aggregate"
    /\ UNCHANGED <<harness, methods, halted_at, results, extracted_metrics,
                   root_exists, entries, scan_data, report>>

\* evaluate_all: self.metrics_calculator.print_comparison_table(df).
PrintComparisonTable ==
    /\ pc = "print"
    /\ log' = Append(log, Call("print_comparison_table", ""))
    /\ report' = print_comparison_table(df.rows)
    /\ pc' = "csv"
    /\ UNCHANGED <<harness, methods, halted_at, error, results, extracted_metrics,
                   root_exists, entries, df, scan_data>>

\* evaluate_all: if not df.empty, df.to_csv(output_root / "comparison.csv").
SaveComparisonCsv ==
    /\ pc = "csv"
    /\ entries' = IF df.rows # <<>>
                  THEN [entries EXCEPT ![CsvName] = FileEntry]
                  ELSE entries
    /\ pc' = "done"
    /\ UNCHANGED <<harness, methods, halted_at, error, log, results, extracted_metrics,
                   root_exists, df, scan_data, report>>

Running ==
    {"loop", "yaml", "mkdir", "val", "save_open", "save_dump", "summary",
     "print", "csv"}

\* A hard interrupt: the process stops where it is.
Halt ==
    /\ pc \in Running
    /\ halted_at' = pc
    /\ pc' = "halted"
    /\ UNCHANGED <<harness, methods, error, log, results, extracted_metrics,
                   root_exists, entries, df, scan_data, report>>

\* A later aggregation on the same output root, once the batch has ended
\* (completed, interrupted or aborted by an error): the table is built and,
\* unless it is empty, printed.
LaterAggregation ==
    /\ pc \in {"halted", "done", "raised"}
    /\ \E order \in ScanOrders(entries), keep_ties \in BOOLEAN :
        df' = create_comparison_table(root_exists, entries, order, keep_ties)
    /\ report' = IF df'.status = "ok" /\ df'.rows # <<>>
                  THEN print_comparison_table(df'.rows)
                  ELSE report
    /\ pc' = "later"
    /\ UNCHANGED <<harness, methods, halted_at, error, log, results, extracted_metrics,
                   root_exists, entries, scan_data>>

Next ==
    \/ NextMethod
    \/ CreateYamlConfig
    \/ MakeOutputDir
    \/ Validate
    \/ SaveMetricsOpen
    \/ SaveMetricsDump
    \/ SaveMetricsSummary
    \/ CreateComparisonTable
    \/ PrintComparisonTable
    \/ SaveComparisonCsv
    \/ Halt
    \/ LaterAggregation

Spec == Init /\ [][Next]_vars

\* ------------------------------------------------- calculate_f1_score alone
\* The batch does not run.
IdleBatch ==
    /\ methods = <<>>
    /\ pc = "idle"
    /\ halted_at = "none"
    /\ error = "none"
    /\ log = <<>>
    /\ results = <<>>
    /\ extracted_metrics = EmptyDict
    /\ root_exists = FALSE
    /\ entries = [n \in Names |-> NoEntry]
    /\ df = NoTable
    /\ scan_data = <<>>
    /\ report = NoReport

InitF1 ==
    /\ f1_in \in Grid(Scale) \X Grid(Scale)
    /\ f1_out = [called |-> FALSE, val |-> Zero]
    /\ ex_in = NoBox
    /\ ex_out = [called |-> FALSE, raised |-> FALSE, val |-> EmptyDict]
    /\ IdleStaging
    /\ IdlePairing
    /\ IdleBatch

\* f1 = calculate_f1_score(precision, recall)
CallF1 ==
    /\ ~f1_out.called
    /\ f1_out' = [called |-> TRUE, val |-> calculate_f1_score(f1_in[1], f1_in[2])]
    /\ UNCHANGED <<f1_in, ex_in, ex_out, staging, pairing, batch>>

SpecF1 == InitF1 /\ [][CallF1]_vars

\* ----------------------------------------------- extract_yolo_metrics alone
AttrValues == {MissingAttr, BadAttr} \cup {NumAttr(v) : v \in Grid(ValScale)}

MetricsObjects ==
    {NoBox} \cup {[has_box |-> TRUE, box |-> b] : b \in [BoxAttrs -> AttrValues]}

InitExtract ==
    /\ f1_in = <<Zero, Zero>>
    /\ f1_out = [called |-> FALSE, val |-> Zero]
    /\ ex_in \in MetricsObjects
    /\ ex_out = [called |-> FALSE, raised |-> FALSE, val |-> EmptyDict]
    /\ IdleStaging
    /\ IdlePairing
    /\ IdleBatch

\* extracted_metrics = extract_yolo_metrics(metrics)
CallExtract ==
    /\ ~ex_out.called
    /\ LET got == extract_yolo_metrics(ex_in) IN
       ex_out' = [called |-> TRUE, raised |-> got.raised, val |-> got.val]
    /\ UNCHANGED <<f1_in, f1_out, ex_in, staging, pairing, batch>>

SpecExtract == InitExtract /\ [][CallExtract]_vars

\* ------------------------------------------------------- save_metrics alone
\* The dicts save_metrics is given: the three mAP keys, and precision, recall
\* and f1_score each absent or present.
InputDicts ==
    {[keys |-> {"mAP@0.5", "mAP@0.5:0.95", "mAP@0.75"} \cup ks,
      at |-> [k \in AllKeys |->
        CASE k = "precision" /\ k \in ks -> p
          [] k = "recall" /\ k \in ks -> r
          [] k = "f1_score" /\ k \in ks -> f
          [] k \in {"mAP@0.5", "mAP@0.5:0.95", "mAP@0.75"} -> One
          [] OTHER -> Zero]]
     : ks \in SUBSET {"precision", "recall", "f1_score"},
       p \in Grid(ValScale), r \in Grid(ValScale), f \in {Zero, One}}

\* evaluate("raw") is about to call save_metrics with one of the dicts; the
\* output directory is empty or holds the result of an earlier run.
InitSave ==
    /\ IdleHarness
    /\ methods = <<"raw">>
    /\ pc = "save_open"
    /\ halted_at = "none"
    /\ error = "none"
    /\ log = <<Call("evaluate", "raw")>>
    /\ results = <<>>
    /\ extracted_metrics \in InputDicts
    /\ root_exists = TRUE
    /\ \E json \in {AbsentFile, OkFile(OldResult("raw"))} :
        entries = [n \in Names |->
            IF n = "raw" THEN DirEntry(json, FALSE) ELSE NoEntry]
    /\ df = NoTable
    /\ scan_data = <<>>
    /\ report = NoReport

NextSave ==
    \/ SaveMetricsOpen
    \/ SaveMetricsDump
    \/ SaveMetricsSummary
    \/ CreateComparisonTable

SpecSave == InitSave /\ [][NextSave]_vars

\* ------------------------------------------------- prepare_dataset alone
InitStage ==
    /\ f1_in = <<Zero, Zero>>
    /\ f1_out = [called |-> FALSE, val |-> Zero]
    /\ ex_in = NoBox
    /\ ex_out = [called |-> FALSE, raised |-> FALSE, val |-> EmptyDict]
    /\ source \in Sources
    /\ copy_mode \in BOOLEAN
    /\ target \in InitialTargets(source)
    /\ returned = "none"
    /\ runs = 0
    /\ IdlePairing
    /\ IdleBatch

\* success = processor.prepare_dataset(source_images, method_name, copy_mode),
\* run again with the same arguments.
PrepareDataset ==
    /\ runs < MaxRuns
    /\ LET call == prepare_dataset(source, target, copy_mode) IN
        /\ returned' = call.ret
        /\ target' = call.target
    /\ runs' = runs + 1
    /\ UNCHANGED <<f1_in, f1_out, ex_in, ex_out, source, copy_mode, pairing, batch>>

SpecStage == InitStage /\ [][PrepareDataset]_vars

\* -------------------------------------------------- verify_dataset alone
\* Image files: one per stem (d's below a subdirectory), a second image of
\* stem a with another suffix, and a text file. Label files: one .txt per
\* stem and a .json file.
Stems == {"a", "b", "c", "d"}

ImageDirEntries ==
    {Entry(Path(IF st = "d" THEN "sub" ELSE "", Name(st, ".jpg")), "file") :
        st \in Stems}
    \cup {Entry(Path("", Name("a", ".PNG")), "file"),
          Entry(Path("", Name("a", ".txt")), "file")}

LabelDirEntries ==
    {Entry(Path("", Name(st, ".txt")), "file") : st \in Stems}
    \cup {Entry(Path("", Name("a", ".json")), "file")}

InitVerify ==
    /\ f1_in = <<Zero, Zero>>
    /\ f1_out = [called |-> FALSE, val |-> Zero]
    /\ ex_in = NoBox
    /\ ex_out = [called |-> FALSE, raised |-> FALSE, val |-> EmptyDict]
    /\ IdleStaging
    /\ \E ie, le \in BOOLEAN :
        \E images \in SUBSET ImageDirEntries, labels \in SUBSET LabelDirEntries :
            /\ ie \/ images = {}
            /\ le \/ labels = {}
            /\ ver_in = [images_exist |-> ie, labels_exist |-> le,
                         images |-> images, labels |-> labels]
    /\ ver_out = [called |-> FALSE, result |-> NoVerification]
    /\ IdleBatch

\* result = processor.verify_dataset(method_name)
VerifyDataset ==
    /\ ~ver_out.called
    /\ ver_out' = [called |-> TRUE, result |-> verify_dataset(ver_in)]
    /\ UNCHANGED <<f1_in, f1_out, ex_in, ex_out, staging, ver_in, batch>>

SpecVerify == InitVerify /\ [][VerifyDataset]_vars

\* ------------------------------------------- create_comparison_table alone
\* The results roots of the harness: each method directory is missing or
\* holds the metrics.json of a result with a grid value as mAP@0.5:0.95.
AggregateRoots ==
    {[n \in Names |->
        IF n \in Methods /\ n \in DOMAIN held
        THEN DirEntry(OkFile(ResultObject(
                Put(ZeroVector, "mAP@0.5:0.95", held[n]), n, ModelName)), FALSE)
        ELSE NoEntry]
     : held \in UNION {[S -> Grid(ValScale)] : S \in SUBSET Methods}}

InitAggregate ==
    /\ IdleHarness
    /\ methods = <<>>
    /\ pc = "aggregate"
    /\ halted_at = "none"
    /\ error = "none"
    /\ log = <<>>
    /\ results = <<>>
    /\ extracted_metrics = EmptyDict
    /\ root_exists = TRUE
    /\ entries \in AggregateRoots
    /\ df = NoTable
    /\ scan_data = <<>>
    /\ report = NoReport

\* df = calculator.create_comparison_table(results_dir), with the list data
\* as it is before the sort.
CallCreateComparisonTable ==
    /\ pc = "aggregate"
    /\ \E order \in ScanOrders(entries), keep_ties \in BOOLEAN :
        /\ df' = create_comparison_table(root_exists, entries, order, keep_ties)
        /\ scan_data' = CollectedData(root_exists, entries, order)
    /\ pc' = "later"
    /\ UNCHANGED <<harness, methods, halted_at, error, log, results, extracted_metrics,
                   root_exists, entries, report>>

SpecAggregate == InitAggregate /\ [][CallCreateComparisonTable]_vars

\* -------------------------------------------- print_comparison_table alone
\* The order in which the harness names the rows of a table.
MethodOrder == <<"raw", "pwgcm", "hsv">>

\* A row of a comparison table with the given mAP@0.5:0.95.
TableRow(method, v) ==
    [Method |-> method, Model |-> ModelName, mAP50 |-> One, mAP |-> v,
     mAP75 |-> One, Precision |-> One, Recall |-> One, F1Score |-> One]

\* The tables create_comparison_table returns: up to three rows, sorted by
\* mAP@0.5:0.95, descending.
PrintTables ==
    UNION {{[i \in 1..n |-> TableRow(MethodOrder[i], t[i])] :
                t \in {u \in [1..n -> Grid(Scale)] :
                            \A i \in 1..(n - 1) : RLeq(u[i + 1], u[i])}}
           : n \in 0..Len(MethodOrder)}

\* evaluate_all is about to print one of the tables.
InitPrint ==
    /\ IdleHarness
    /\ methods = <<>>
    /\ pc = "print"
    /\ halted_at = "none"
    /\ error = "none"
    /\ log = <<Call("create_comparison_table", "")>>
    /\ results = <<>>
    /\ extracted_metrics = EmptyDict
    /\ root_exists = TRUE
    /\ entries = [n \in Names |-> NoEntry]
    /\ \E rows \in PrintTables :
        df = [status |-> "ok", rows |-> rows]
    /\ scan_data = <<>>
    /\ report = NoReport

NextPrint ==
    \/ PrintComparisonTable
    \/ SaveComparisonCsv

SpecPrint == InitPrint /\ [][NextPrint]_vars

\* ------------------------------------------------------------------ claims
\* f is the harmonic mean of p and r, 0 when both are 0, in integers:
\* f = 2pr/(p+r) for p = a/b, r = c/d is f = 2ac/(ad + cb).
IsHarmonicMean(f, p, r) ==
    IF p[1] * r[2] + r[1] * p[2] = 0
    THEN f[1] = 0
    ELSE f[1] * (p[1] * r[2] + r[1] * p[2]) = 2 * p[1] * r[1] * f[2]

\* C4: extract_yolo_metrics never raises and returns exactly the five keys;
\* when reading raises (no box, map50 or map missing, a value float() rejects)
\* all five values are 0.0; otherwise map50 and map are the values read and
\* each optional attribute (map75, mp, mr) is the value read, or 0.0 alone
\* when it is missing.
C4_ExtractNeverRaises ==
    ex_out.called =>
        LET optional == [k \in {"mAP@0.75", "precision", "recall"} |->
                CASE k = "mAP@0.75" -> "map75"
                  [] k = "precision" -> "mp"
                  [] OTHER -> "mr"]
            reading_raises ==
                \/ ~ex_in.has_box
                \/ ex_in.box["map50"].kind # "num"
                \/ ex_in.box["map"].kind # "num"
                \/ \E k \in DOMAIN optional : ex_in.box[optional[k]].kind = "bad"
        IN  /\ ~ex_out.raised
            /\ ex_out.val.keys = FiveKeys
            /\ reading_raises => \A k \in FiveKeys : ex_out.val.at[k] = Zero
            /\ ~reading_raises =>
                /\ ex_out.val.at["mAP@0.5"] = ex_in.box["map50"].v
                /\ ex_out.val.at["mAP@0.5:0.95"] = ex_in.box["map"].v
                /\ \A k \in DOMAIN optional :
                    ex_out.val.at[k] =
                        IF ex_in.box[optional[k]].kind = "missing"
                        THEN Zero
                        ELSE ex_in.box[optional[k]].v

\* C4 witness: only the optional mp is missing; precision alone is 0.0 and
\* the other keys keep the values read.
C4_Witness ==
    /\ ex_out.called
    /\ ex_in.has_box
    /\ ex_in.box["mp"].kind = "missing"
    /\ \A a \in BoxAttrs \ {"mp"} : ex_in.box[a] = NumAttr(One)
    /\ ex_out.val.at["precision"] = Zero
    /\ \A k \in FiveKeys \ {"precision"} : ex_out.val.at[k] = One

\* C5: for p, r in [0,1], calculate_f1_score(p, r) is 0 when p + r == 0 and
\* 2pr/(p+r) otherwise, is symmetric in p and r, and f1(1,1) == 1.
C5_F1Formula ==
    f1_out.called =>
        LET p == f1_in[1]
            r == f1_in[2]
        IN  /\ IsHarmonicMean(f1_out.val, p, r)
            /\ f1_out.val = calculate_f1_score(r, p)
            /\ (p = One /\ r = One) => f1_out.val = One

\* C5 witness: f1(1/2, 1) = 2/3.
C5_Witness ==
    /\ f1_out.called
    /\ f1_in = <<Rat(1, 2), One>>
    /\ f1_out.val = Rat(2, 3)

\* C6 as stated: f1(p, r) == 0 if and only if p + r == 0.
C6_Original ==
    f1_out.called =>
        (f1_out.val = Zero <=> RAdd(f1_in[1], f1_in[2]) = Zero)

\* C6 amended: f1(p, r) == 0 if and only if p == 0 or r == 0 (which includes
\* p + r == 0).
C6_F1ZeroIffProductZero ==
    f1_out.called =>
        (f1_out.val[1] = 0 <=> (f1_in[1][1] = 0 \/ f1_in[2][1] = 0))

\* C6 witness: f1(0, 1/2) = 0 although p + r > 0.
C6_Witness ==
    /\ f1_out.called
    /\ f1_in = <<Zero, Rat(1, 2)>>
    /\ f1_out.val = Zero

\* The calls of one operation in the log, in order.
CallsOf(op) == SelectSeq(log, LAMBDA c : c.op = op)

\* The directories of the root that hold a complete metrics.json.
WithMetrics ==
    {n \in Names : entries[n].kind = "dir" /\ entries[n].json.state = "ok"}

\* No metrics.json of the root is partial.
NoPartial == \A n \in Names : entries[n].json.state # "partial"

RowMethods == {df.rows[i].Method : i \in 1..Len(df.rows)}

\* C1: when only calls of model.val raise, evaluate_all attempts each method
\* of the list once, in list order; evaluate returns {} for each method whose
\* validation raised; the methods after it are still evaluated; and
\* create_comparison_table and print_comparison_table run once each, after the
\* last method, and the batch completes.
C1_ValFailuresDoNotAbort ==
    LET calls == CallsOf("evaluate")
        only_val ==
            /\ error \notin {"yaml", "mkdir"}
            /\ \A i \in 1..Len(results) : results[i].fault \in {"none", "val"}
    IN  only_val =>
        /\ error = "none"
        /\ Len(calls) <= Len(methods)
        /\ \A i \in 1..Len(calls) : calls[i].arg = methods[i]
        /\ \A i \in 1..Len(results) :
            /\ results[i].method = methods[i]
            /\ results[i].fault = "val" => results[i].metrics = EmptyDict
        /\ pc \notin {"raised", "halted", "later"} =>
                Len(results) + (IF pc \in {"loop", "print", "csv", "done"} THEN 0 ELSE 1)
                    = Len(calls)
        /\ Len(CallsOf("create_comparison_table")) <= 1
        /\ Len(CallsOf("print_comparison_table")) <= 1
        /\ \A i \in 1..Len(log) :
            log[i].op \in {"create_comparison_table", "print_comparison_table"}
                => /\ i > Len(methods)
                   /\ Len(results) = Len(methods)
        /\ pc = "done" =>
            log = [i \in 1..Len(methods) |-> Call("evaluate", methods[i])]
                  \o <<Call("create_comparison_table", ""),
                       Call("print_comparison_table", "")>>

\* C1 witness: a batch of two methods completed; validation of the first
\* raised, the second was evaluated and persisted.
C1_Witness ==
    /\ pc = "done"
    /\ Len(methods) = 2
    /\ results[1].fault = "val"
    /\ results[1].metrics = EmptyDict
    /\ results[2].fault = "none"
    /\ Len(CallsOf("create_comparison_table")) = 1
    /\ Len(CallsOf("print_comparison_table")) = 1

\* C2 as stated: no error raised in a step of one method's evaluation leaves
\* the per-method loop of evaluate_all.
C2_NoErrorLeavesLoop ==
    error \notin {"yaml", "mkdir", "val", "extract", "open", "dump", "summary"}

\* The metrics.json of every method that completed in this batch holds the
\* result evaluate returned for it.
CompletedResultsIntact ==
    \A i \in 1..Len(results) :
        results[i].fault = "none" =>
            entries[results[i].method].json =
                OkFile(ResultObject(results[i].metrics, results[i].method,
                                    ModelName))

\* The table holds one row for each directory with a complete metrics.json.
RowsMatchPersisted ==
    /\ df.status = "ok"
    /\ RowMethods = WithMetrics
    /\ Len(df.rows) = Cardinality(WithMetrics)

\* C3 as stated (for an output root that exists): wherever the batch is
\* halted, the results of the completed methods are unchanged and a later
\* aggregation succeeds with the rows of the persisted methods.
C3_Original ==
    /\ CompletedResultsIntact
    /\ (pc = "later" /\ halted_at # "none" /\ root_exists) => RowsMatchPersisted

\* C3 amended: wherever the batch is halted, the results of the completed
\* methods are unchanged; a later aggregation succeeds with the rows of the
\* persisted methods when the output root exists and no metrics.json is left
\* partial, and raises otherwise (a halt between open(.., 'w') and the end of
\* json.dump leaves metrics.json partial).
C3_HaltKeepsPersisted ==
    /\ CompletedResultsIntact
    /\ (pc = "later" /\ halted_at # "none") =>
        IF root_exists /\ NoPartial
        THEN /\ RowsMatchPersisted
             /\ \A i \in 1..Len(results) :
                    results[i].fault = "none" =>
                        \E j \in 1..Len(df.rows) :
                            /\ df.rows[j].Method = results[i].method
                            /\ df.rows[j].mAP =
                                   results[i].metrics.at["mAP@0.5:0.95"]
        ELSE df.status = "raised"
    /\ halted_at = "save_dump" => ~NoPartial

\* C3 witness: the batch was halted while the second method was evaluated;
\* the first method's result is intact and the later aggregation holds its
\* row, the second method's directory has no metrics.json.
C3_Witness ==
    /\ pc = "later"
    /\ halted_at = "val"
    /\ Len(results) = 1
    /\ results[1].fault = "none"
    /\ entries[methods[2]].json.state = "absent"
    /\ df.status = "ok"
    /\ \E j \in 1..Len(df.rows) : df.rows[j].Method = methods[1]

\* C7: every metrics.json written by save_metrics holds
\* f1_score == f1(precision, recall), absent precision/recall read as 0,
\* whatever f1_score the dict passed in held.
C7_PersistedF1Derived ==
    \A m \in Methods :
        LET json == entries[m].json IN
        (json.state = "ok" /\ json.result.model = ModelName) =>
            /\ "f1_score" \in json.result.metrics.keys
            /\ IsHarmonicMean(json.result.metrics.at["f1_score"],
                              Get(json.result.metrics, "precision", Zero),
                              Get(json.result.metrics, "recall", Zero))

\* C7 witness: a metrics.json written by save_metrics without a precision key
\* holds f1_score 0; its recall is 1.
C7_Witness ==
    LET json == entries["raw"].json IN
    /\ json.state = "ok"
    /\ json.result.model = ModelName
    /\ "precision" \notin json.result.metrics.keys
    /\ json.result.metrics.at["recall"] = One
    /\ json.result.metrics.at["f1_score"] = Zero

\* C8: every row's F1-Score is f1(Precision, Recall) of the row, which are the
\* stored precision and recall (0 when absent), whatever f1_score the file
\* stores; for a file written by save_metrics it is the f1_score persisted.
C8_RowF1Recomputed ==
    df.status = "ok" =>
        \A i \in 1..Len(df.rows) :
            LET row == df.rows[i]
                result == entries[row.Method].json.result
            IN  /\ IsHarmonicMean(row.F1Score, row.Precision, row.Recall)
                /\ row.Precision = Get(result.metrics, "precision", Zero)
                /\ row.Recall = Get(result.metrics, "recall", Zero)
                /\ result.model = ModelName =>
                        row.F1Score = result.metrics.at["f1_score"]

\* C8 witness: a table with a row of a file whose stored f1_score (0) differs
\* from the derived one (2/3), and a row of a file written by save_metrics.
C8_Witness ==
    /\ df.status = "ok"
    /\ \E i \in 1..Len(df.rows) :
        /\ df.rows[i].Method = "raw"
        /\ entries["raw"].json.result.metrics.at["f1_score"] = Zero
        /\ df.rows[i].F1Score = Rat(2, 3)
    /\ \E i \in 1..Len(df.rows) :
        /\ entries[df.rows[i].Method].json.result.model = ModelName
        /\ df.rows[i].F1Score # Zero

\* C9: the table is sorted by mAP@0.5:0.95, descending: each row's value is
\* >= the next row's; a result without the key counts as 0.0.
C9_SortedDescending ==
    df.status = "ok" =>
        /\ \A i \in 1..(Len(df.rows) - 1) :
                RLeq(df.rows[i + 1].mAP, df.rows[i].mAP)
        /\ \A i \in 1..Len(df.rows) :
                "mAP@0.5:0.95" \notin
                    entries[df.rows[i].Method].json.result.metrics.keys
                => df.rows[i].mAP = Zero

\* C9 witness: a table of three rows with three different values, the last
\* one of a result without the key.
C9_Witness ==
    /\ df.status = "ok"
    /\ Len(df.rows) = 3
    /\ df.rows[1].mAP = One
    /\ df.rows[2].mAP = Rat(1, 2)
    /\ df.rows[3].mAP = Zero
    /\ "mAP@0.5:0.95" \notin
            entries[df.rows[3].Method].json.result.metrics.keys

\* C10: the table has exactly one row for each immediate subdirectory of the
\* root with a metrics.json and no other row; other entries are skipped
\* without error (the call succeeds when the root exists and every
\* metrics.json is complete), and the table is empty when there is none.
C10_OneRowPerResult ==
    df.status # "none" =>
        /\ (root_exists /\ NoPartial) => df.status = "ok"
        /\ df.status = "ok" =>
            /\ Len(df.rows) = Cardinality(WithMetrics)
            /\ \A n \in Names :
                Cardinality({i \in 1..Len(df.rows) : df.rows[i].Method = n})
                    = IF n \in WithMetrics THEN 1 ELSE 0
            /\ WithMetrics = {} => df.rows = <<>>

\* C10 witness: the root holds comparison.csv, an archive directory with a
\* metrics.json nested deeper and a method directory without metrics.json;
\* the table has the rows of the other method directories only.
C10_Witness ==
    /\ df.status = "ok"
    /\ entries[CsvName].kind = "file"
    /\ entries[ArchiveName].kind = "dir"
    /\ entries[ArchiveName].nested
    /\ \E m \in Methods :
        /\ entries[m].kind = "dir"
        /\ entries[m].json.state = "absent"
    /\ Len(df.rows) = 2

\* The mAP@0.5:0.95 column of the printed table.
MapColumn == [i \in 1..Len(df.rows) |-> df.rows[i].mAP]

\* line reports (m - b) / b * 100 for the row value m and the baseline b # 0:
\* the exact value, and the text rounded to two decimals.
IsImprovementOver(line, m, b) ==
    /\ line.finite
    /\ line.improvement[1] * m[2] * b[1]
            = 100 * line.improvement[2] * (m[1] * b[2] - b[1] * m[2])
    /\ 2 * (100 * line.improvement[1] - line.text * line.improvement[2])
            <= line.improvement[2]
    /\ 2 * (line.text * line.improvement[2] - 100 * line.improvement[1])
            <= line.improvement[2]

\* C11: on a table of at least two rows sorted descending, every percentage
\* print_comparison_table reports for a row with mAP@0.5:0.95 = m equals
\* (m - b) / b * 100 with b the value of the last row (inf when b is 0, as the
\* float division gives), never the mean: a row with m = 2b reports exactly
\* +100.00%, and the table [0.50, 0.40, 0.30] reports +66.67% and +33.33%
\* for its first two rows.
C11_ImprovementAgainstLastRow ==
    (report.status = "printed" /\ Len(df.rows) >= 2) =>
        LET b == df.rows[Len(df.rows)].mAP IN
        /\ \A k \in 1..Len(report.lines) :
            \E i \in 1..Len(df.rows) :
                /\ report.lines[k].Method = df.rows[i].Method
                /\ IF b = Zero
                   THEN ~report.lines[k].finite
                   ELSE IsImprovementOver(report.lines[k], df.rows[i].mAP, b)
        /\ \A i \in 1..Len(df.rows) :
            (b # Zero /\ df.rows[i].mAP = RMul(Two, b)) =>
                \E k \in 1..Len(report.lines) :
                    /\ report.lines[k].Method = df.rows[i].Method
                    /\ report.lines[k].improvement = Rat(100, 1)
                    /\ report.lines[k].text = 10000
        /\ MapColumn = <<Rat(1, 2), Rat(2, 5), Rat(3, 10)>> =>
                /\ Len(report.lines) = 2
                /\ report.lines[1].Method = df.rows[1].Method
                /\ report.lines[1].text = 6667
                /\ report.lines[2].Method = df.rows[2].Method
                /\ report.lines[2].text = 3333

\* C11 witness: the table [0.50, 0.40, 0.30] has been printed, with +66.67%
\* and +33.33% against the baseline 0.30.
C11_Witness ==
    /\ report.status = "printed"
    /\ MapColumn = <<Rat(1, 2), Rat(2, 5), Rat(3, 10)>>
    /\ Len(report.lines) = 2
    /\ report.lines[1].improvement = Rat(200, 3)
    /\ report.lines[1].text = 6667
    /\ report.lines[2].improvement = Rat(100, 3)
    /\ report.lines[2].text = 3333

\* C16 as stated: print_comparison_table on a table of at least two rows
\* reports a delta for every row, 0% for the baseline row and for a row equal
\* to the baseline.
C16_Original ==
    (report.status = "printed" /\ Len(df.rows) >= 2) =>
        /\ Len(report.lines) = Len(df.rows)
        /\ \A i \in 1..Len(df.rows) :
            /\ report.lines[i].Method = df.rows[i].Method
            /\ df.rows[i].mAP = df.rows[Len(df.rows)].mAP =>
                    report.lines[i].text = 0

\* C16, amended: print_comparison_table on a table of at least two rows
\* reports a delta for exactly the rows whose mAP@0.5:0.95 differs from the
\* baseline's (the last row's), in table order; the baseline row and every
\* row equal to the baseline report nothing.
C16_DeltaOnlyOffBaseline ==
    (report.status = "printed" /\ Len(df.rows) >= 2) =>
        LET b == df.rows[Len(df.rows)].mAP
            off == {i \in 1..Len(df.rows) : df.rows[i].mAP # b}
        IN  /\ Len(report.lines) = Cardinality(off)
            /\ \A i \in 1..Len(df.rows) :
                (i \in off) <=>
                    \E k \in 1..Len(report.lines) :
                        report.lines[k].Method = df.rows[i].Method
            /\ \A k, l \in 1..Len(report.lines) :
                \A i, j \in off :
                    (/\ k < l
                     /\ report.lines[k].Method = df.rows[i].Method
                     /\ report.lines[l].Method = df.rows[j].Method) => i < j

\* C16 witness: a printed table of three rows, the second equal to the
\* baseline; only the first row has a line.
C16_Witness ==
    /\ report.status = "printed"
    /\ MapColumn = <<Rat(1, 2), Rat(3, 10), Rat(3, 10)>>
    /\ Len(report.lines) = 1
    /\ report.lines[1].Method = df.rows[1].Method

\* C19: whatever table the pipeline produces, print_comparison_table never
\* divides by zero: every relative improvement it reports is finite.
C19_ImprovementsFinite ==
    report.status = "printed" =>
        \A k \in 1..Len(report.lines) : report.lines[k].finite

\* The place of a method's row in the list data, in discovery order.
Discovered(method) ==
    CHOOSE i \in 1..Len(scan_data) : scan_data[i].Method = method

\* C17: in the table create_comparison_table returns, rows with equal
\* mAP@0.5:0.95 appear in the order in which the scan of the results root
\* discovered their directories.
C17_TiesKeepDiscoveryOrder ==
    df.status = "ok" =>
        \A i, j \in 1..Len(df.rows) :
            (i < j /\ df.rows[i].mAP = df.rows[j].mAP) =>
                Discovered(df.rows[i].Method) < Discovered(df.rows[j].Method)

\* C18: after evaluate_all(methods), every row of the comparison table whose
\* method is in methods carries the metrics this batch produced for it; a
\* method whose evaluation returned {} in this run has no row.
C18_RowsFromThisBatch ==
    (pc \in {"print", "csv", "done"} /\ df.status = "ok") =>
        \A i \in 1..Len(results) :
            \A k \in 1..Len(df.rows) :
                df.rows[k].Method = results[i].method =>
                    /\ results[i].metrics # EmptyDict
                    /\ df.rows[k] =
                        RowOf(ResultObject(results[i].metrics,
                                           results[i].method, ModelName))

\* The image files of the source directory, and the names they are staged
\* under.
SourceImages == get_image_files(source.listing)
StagedNames == {SourceImages[i].path.name : i \in 1..Len(SourceImages)}

\* The entry is a symbolic link to the absolute path of a current source
\* image of that name.
LinksToSource(e, n) ==
    /\ e.kind = "link"
    /\ \E i \in 1..Len(SourceImages) :
        /\ SourceImages[i].path.name = n
        /\ e.to = absolute(SourceImages[i].path)

\* C12: when prepare_dataset has run in symbolic-link mode on a source with
\* image files, whatever was at a target path before (a regular file, a link
\* to an existing file or a dangling link), staging completed without error
\* and every target path is a symbolic link to the absolute path of the
\* current source file.
C12_ExistingTargetReplaced ==
    (runs >= 1 /\ ~copy_mode /\ source.exists /\ SourceImages # <<>>) =>
        /\ returned = "True"
        /\ \A n \in StagedNames : LinksToSource(target.at[n], n)

\* C13: a second run of prepare_dataset in symbolic-link mode, with the same
\* source and method, on a target directory the first run staged, succeeds
\* and leaves the links as they were: the same names, each a link to the same
\* absolute source path, none of them dangling.
C13_SecondRunSameLinks ==
    [][(runs = 1 /\ returned = "True" /\ ~copy_mode) =>
            /\ returned' = "True"
            /\ target' = target
            /\ \A n \in StagedNames :
                /\ LinksToSource(target'.at[n], n)
                /\ PathExists(source, target'.at[n].to)]_vars

\* C13 witness: two runs in symbolic-link mode have succeeded on a source
\* with two image files of the same name and a third image; both names are
\* links into the source.
C13_Witness ==
    /\ runs = 2
    /\ returned = "True"
    /\ ~copy_mode
    /\ Len(SourceImages) = 3
    /\ \A n \in StagedNames :
        /\ LinksToSource(target.at[n], n)
        /\ PathExists(source, target.at[n].to)

\* C14: prepare_dataset returns False exactly when the source directory does
\* not exist or holds no image file, and then stages nothing; in every other
\* case it stages the image files and returns True.
C14_FalseExactlyWhenNothingToStage ==
    [][IF ~source.exists \/ SourceImages = <<>>
       THEN /\ returned' = "False"
            /\ target'.at = target.at
       ELSE /\ returned' = "True"
            /\ \A n \in StagedNames : target'.at[n].kind # "none"]_vars

\* The stems verify_dataset is to pair: of the image files below the image
\* directory and of the .txt files in the label directory.
ImageStemSet ==
    {f.path.name.stem :
        f \in {g \in ver_in.images :
                    g.kind = "file" /\ Lower(g.path.name.suffix) \in image_extensions}}
LabelStemSet ==
    {f.path.name.stem : f \in {g \in ver_in.labels : g.path.name.suffix = ".txt"}}

\* The issues of a kind in the result of verify_dataset.
IssuesOf(kind) ==
    {k \in 1..Len(ver_out.result.issues) : ver_out.result.issues[k].kind = kind}

\* C15: for verify_dataset with both directories present, image stem set I
\* and label stem set L: matched_count = |I \cap L|; there is an
\* unmatched-image issue, carrying |I \ L|, iff I \ L is not empty, and an
\* unmatched-label issue, carrying |L \ I|, iff L \ I is not empty; the
\* issues are empty iff I = L; the call returns its result whatever the
\* mismatch. For I = {a,b,c} and L = {b,c,d}: matched_count = 2 and each
\* issue reports 1.
C15_PairingCounts ==
    (ver_out.called /\ ver_in.images_exist /\ ver_in.labels_exist) =>
        LET I == ImageStemSet
            L == LabelStemSet
            result == ver_out.result
        IN  /\ result.images_exist /\ result.labels_exist
            /\ result.matched_count = Cardinality(I \cap L)
            /\ IssuesOf("unmatched_images") # {} <=> I \ L # {}
            /\ \A k \in IssuesOf("unmatched_images") :
                    result.issues[k].count = Cardinality(I \ L)
            /\ IssuesOf("unmatched_labels") # {} <=> L \ I # {}
            /\ \A k \in IssuesOf("unmatched_labels") :
                    result.issues[k].count = Cardinality(L \ I)
            /\ Cardinality(IssuesOf("unmatched_images")) <= 1
            /\ Cardinality(IssuesOf("unmatched_labels")) <= 1
            /\ result.issues = <<>> <=> I = L
            /\ (I = {"a", "b", "c"} /\ L = {"b", "c", "d"}) =>
                    /\ result.matched_count = 2
                    /\ result.issues = <<Issue("unmatched_images", 1),
                                         Issue("unmatched_labels", 1)>>

\* C15 witness: verify_dataset has run on images a, b, c and labels b, c, d:
\* two pairs, one image without label and one label without image.
C15_Witness ==
    /\ ver_out.called
    /\ ver_in.images_exist /\ ver_in.labels_exist
    /\ ImageStemSet = {"a", "b", "c"}
    /\ LabelStemSet = {"b", "c", "d"}
    /\ ver_out.result.matched_count = 2
    /\ Len(ver_out.result.issues) = 2

====
